---- MODULE Spec2Model ----
(***************************************************************************)
(* Token lifecycle and session management of the Go Fiber auth service:    *)
(* login, refresh-token rotation, logout, logout-all, session listing,     *)
(* expiry cleanup, account deletion and the JWT-protected routes.          *)
(*                                                                         *)
(* The session and user tables are the shared state.  Every HTTP request   *)
(* runs on its own worker; a handler that issues several store statements  *)
(* is modelled as one action per statement, so that requests interleave    *)
(* between statements exactly where the code lets them.                    *)
(*                                                                         *)
(* Time is an integer count of clock ticks, TicksPerSecond ticks to the    *)
(* second, so that time.Time values (sub-second) and JWT NumericDates      *)
(* (whole seconds, time.Unix()) are told apart.                            *)
(***************************************************************************)
EXTENDS Integers, Sequences, FiniteSets, TLC

\* ------------------------------------------------------------------ bounds
NumUsers == 2
MaxSessions == 3
MaxProcs == 2
ExtraInstants == 0
TicksPerSecond == 2
NumChildren == 2
NumIPs == 1
MaxRequests == 6
MaxProducts == 2

\* --------------------------------------------------------------- constants
AccessTokenDuration == 15 * 60 * TicksPerSecond
RefreshTokenDuration == 7 * 24 * 3600 * TicksPerSecond

StatusOK == 200
StatusBadRequest == 400
StatusUnauthorized == 401
StatusForbidden == 403
StatusNotFound == 404
StatusInternalServerError == 500

UserIDs == 1..NumUsers
Procs == 1..MaxProcs

VARIABLES
    env,        \* process environment read by config.Config
    now,        \* the wall clock, in ticks
    users,      \* users table: id -> row
    sessions,   \* sessions table: sequence of rows, row i has primary key i
    hist,       \* history of session i: the access token returned with it, when, the
                \* session it was rotated from (0: a login)
    procs,      \* in-flight requests: worker -> position and locals
    resp,       \* the last HTTP response sent
    boot,       \* how far main has come, and what ValidateConfig returned
    limiter,    \* authLimiter's in-memory storage: child process -> IP -> entry
    reached,    \* history: IP -> the times its requests reached an auth handler
    products    \* products table: sequence of rows, row i has primary key i

vars == <<env, now, users, sessions, hist, procs, resp, boot, limiter, reached, products>>

\* ------------------------------------------------------------ environment
\* Environments the server runs with (all required variables are set).
Envs ==
    { [SECRET |-> "k-legacy", ACCESS_TOKEN_SECRET |-> "k-access"] }

\* Every environment config.Config may be read from, set or unset variables.
AllEnvs ==
    [SECRET : {"", "k-legacy", "k-access"}, ACCESS_TOKEN_SECRET : {"", "k-legacy", "k-access"}]

Config(e, key) == e[key]

\* ------------------------------------------------------------------- time
\* time.Time.Unix(): whole seconds, truncated.
Unix(t) == t \div TicksPerSecond

\* time.Unix(sec, 0): the instant of a NumericDate.
UnixTime(sec) == sec * TicksPerSecond

\* ------------------------------------------------------------------ users
\* A password is a value; bcrypt's hash of it is a tagged copy, and the empty
\* string (NoHash) is no hash at all.
UserPassword(u) == <<"pw", u>>
WrongPassword == <<"pw", 0>>
Passwords == {UserPassword(u) : u \in 1..NumUsers} \cup {WrongPassword}
Hash(pw) == <<"bcrypt", pw>>
NoHash == <<>>

\* bcrypt.CompareHashAndPassword errors on a malformed (empty) hash.
CheckPasswordHash(password, hash) ==
    /\ hash # NoHash
    /\ hash = Hash(password)

\* An identity string, abstracted to what the handlers look at: whether it
\* parses as an e-mail address, whose account it names once normalized
\* (0: nobody's), whether it carries upper case or padding, and whether it is
\* empty.
Identities ==
    [email : BOOLEAN, owner : 0..NumUsers, raw : BOOLEAN, empty : {FALSE}]
        \cup {[email |-> FALSE, owner |-> 0, raw |-> FALSE, empty |-> TRUE]}

\* The identities requests are drawn from: for each account its username, its
\* e-mail address and that address in upper case; a username that is
\* nobody's; the empty string.
PresentedIdentities ==
    {s \in Identities : (s.raw => s.email /\ s.owner # 0) /\ (s.owner = 0 => ~s.email)}

NormalizeEmail(s) == [s EXCEPT !.raw = FALSE]
NormalizeUsername(s) == [s EXCEPT !.raw = FALSE]
ValidateEmail(s) == s.email

Username(u) == [email |-> FALSE, owner |-> u, raw |-> FALSE, empty |-> FALSE]
Email(u) == [email |-> TRUE, owner |-> u, raw |-> FALSE, empty |-> FALSE]

InitUsers ==
    [u \in UserIDs |->
        [ID |-> u, Username |-> Username(u), Email |-> Email(u),
         Password |-> Hash(UserPassword(u)), Names |-> "", Deleted |-> FALSE]]

\* Rows a query sees: gorm filters soft-deleted rows out.
LiveUsers(us) == {u \in DOMAIN us : ~us[u].Deleted}

Min(S) == CHOOSE x \in S : \A y \in S : x <= y

\* db.Where(&model.User{...}).First(&user): conditions on zero-valued struct
\* fields are dropped, so an empty value selects the first row by primary key.
\* 0 stands for (nil, nil): no record.
FirstUserWhere(us, field, value) ==
    LET hits == IF value.empty THEN LiveUsers(us)
                ELSE {u \in LiveUsers(us) : us[u][field] = value}
    IN  IF hits = {} THEN 0 ELSE Min(hits)

getUserByEmail(us, e) == FirstUserWhere(us, "Email", e)
getUserByUsername(us, u) == FirstUserWhere(us, "Username", u)

\* db.First(&user, id)
FirstUserByID(us, id) == IF id \in LiveUsers(us) THEN id ELSE 0

\* --------------------------------------------------------------- sessions
\* model.Session.  UserAgent and IPAddress are informational and left out;
\* Deleted is gorm.Model's DeletedAt (set or not).
NoSession ==
    [ID |-> 0, UserID |-> 0, RefreshToken |-> 0, ExpiresAt |-> 0,
     LastUsedAt |-> 0, IsRevoked |-> FALSE, Deleted |-> FALSE]

\* Faulty variant of IsExpired: a session never expires.
IsExpiredNever(s, t) == FALSE

\* Session.IsExpired: time.Now().After(s.ExpiresAt)
IsExpired(s, t) == t > s.ExpiresAt

\* Session.IsValid
IsValid(s, t) == ~IsExpired(s, t) /\ ~s.IsRevoked

\* Primary keys of the rows a query sees (soft-deleted rows are filtered out).
LiveSessions(ss) == {i \in DOMAIN ss : ~ss[i].Deleted}

\* db.Where("refresh_token = ?", tok).First(&session); 0: record not found.
FirstSessionByToken(ss, tok) ==
    LET hits == {i \in LiveSessions(ss) : ss[i].RefreshToken = tok}
    IN  IF hits = {} THEN 0 ELSE Min(hits)

\* db.Save(s): writes every column of the row with s's primary key.  The
\* UPDATE skips a soft-deleted row and gorm then upserts on the primary key,
\* so the row ends as s either way.
Save(ss, s) == [ss EXCEPT ![s.ID] = s]

\* Faulty variants of Revoke, for checking that the properties notice them:
\* one that saves the row without setting the flag, one that flips the flag.
RevokeForgets(ss, s) == Save(ss, s)
RevokeToggles(ss, s) == Save(ss, [s EXCEPT !.IsRevoked = ~@])

\* Faulty variant of Revoke: the revocation also pushes the expiry on.
RevokeExtends(ss, s) ==
    Save(ss, [s EXCEPT !.IsRevoked = TRUE, !.ExpiresAt = @ + 1])

\* Session.Revoke: s.IsRevoked = true; db.Save(s)
Revoke(ss, s) == Save(ss, [s EXCEPT !.IsRevoked = TRUE])

\* Faulty variant of ValidateRefreshToken: a revoked row still validates.
ValidateRefreshTokenRevokedToo(ss, tok, t) ==
    LET i == FirstSessionByToken(ss, tok)
    IN  IF i = 0 THEN [err |-> "invalid refresh token", session |-> NoSession]
        ELSE IF IsExpired(ss[i], t)
             THEN [err |-> "refresh token expired or revoked", session |-> NoSession]
             ELSE [err |-> "", session |-> ss[i]]

\* ValidateRefreshToken: "ok" with the row, or the error.
ValidateRefreshToken(ss, tok, t) ==
    LET i == FirstSessionByToken(ss, tok)
    IN  IF i = 0 THEN [err |-> "invalid refresh token", session |-> NoSession]
        ELSE IF ~IsValid(ss[i], t)
             THEN [err |-> "refresh token expired or revoked", session |-> NoSession]
             ELSE [err |-> "", session |-> ss[i]]

\* RevokeRefreshToken: the error, and the table afterwards.
RevokeRefreshToken(ss, tok) ==
    LET i == FirstSessionByToken(ss, tok)
    IN  IF i = 0 THEN [err |-> "refresh token not found", sessions |-> ss]
        ELSE [err |-> "", sessions |-> Revoke(ss, ss[i])]

\* Faulty variant of RevokeAllUserSessions: the UPDATE without its user_id
\* condition.
RevokeEverySession(ss, userID) ==
    [i \in DOMAIN ss |->
        IF ~ss[i].Deleted /\ ~ss[i].IsRevoked THEN [ss[i] EXCEPT !.IsRevoked = TRUE]
        ELSE ss[i]]

\* RevokeAllUserSessions: one UPDATE over the user's non-revoked rows.
RevokeAllUserSessions(ss, userID) ==
    [i \in DOMAIN ss |->
        IF ~ss[i].Deleted /\ ss[i].UserID = userID /\ ~ss[i].IsRevoked
        THEN [ss[i] EXCEPT !.IsRevoked = TRUE]
        ELSE ss[i]]

\* Faulty variants of CleanupExpiredSessions: one that leaves revoked rows,
\* one that also deletes the rows that expire at this very instant.
CleanupSkipsRevoked(ss, t) ==
    [i \in DOMAIN ss |->
        IF ~ss[i].Deleted /\ ss[i].ExpiresAt < t /\ ~ss[i].IsRevoked
        THEN [ss[i] EXCEPT !.Deleted = TRUE]
        ELSE ss[i]]

CleanupThroughNow(ss, t) ==
    [i \in DOMAIN ss |->
        IF ~ss[i].Deleted /\ ss[i].ExpiresAt <= t
        THEN [ss[i] EXCEPT !.Deleted = TRUE]
        ELSE ss[i]]

\* CleanupExpiredSessions: one (soft) DELETE over the rows with expires_at < now.
CleanupExpiredSessions(ss, t) ==
    [i \in DOMAIN ss |->
        IF ~ss[i].Deleted /\ ss[i].ExpiresAt < t
        THEN [ss[i] EXCEPT !.Deleted = TRUE]
        ELSE ss[i]]

\* The rows GetUserActiveSessions selects.
ActiveSessionIDs(ss, userID, t) ==
    {i \in LiveSessions(ss) :
        ss[i].UserID = userID /\ ss[i].IsRevoked = FALSE /\ ss[i].ExpiresAt > t}

\* GetUserActiveSessions: the selected rows in any order the ORDER BY
\* last_used_at DESC allows (rows with equal last_used_at come in any order).
GetUserActiveSessions(ss, userID, t) ==
    LET ids == ActiveSessionIDs(ss, userID, t)
        n == Cardinality(ids)
    IN  {q \in [1..n -> ids] :
            /\ \A a, b \in 1..n : a # b => q[a] # q[b]
            /\ \A a, b \in 1..n : a < b => ss[q[a]].LastUsedAt >= ss[q[b]].LastUsedAt}

\* ---------------------------------------------------------- access tokens
\* The secret GenerateAccessToken signs with.
IssuerSecret(e) ==
    IF Config(e, "ACCESS_TOKEN_SECRET") = "" THEN Config(e, "SECRET")
    ELSE Config(e, "ACCESS_TOKEN_SECRET")

\* Faulty variant of MiddlewareSecret: the middleware always verifies with
\* SECRET.
MiddlewareSecretLegacy(e) == Config(e, "SECRET")

\* The secret the Protected middleware verifies with.
MiddlewareSecret(e) ==
    IF Config(e, "ACCESS_TOKEN_SECRET") = "" THEN Config(e, "SECRET")
    ELSE Config(e, "ACCESS_TOKEN_SECRET")

\* A signed JWT: its claims and the key of its signature.  exp and iat are
\* NumericDates (whole seconds).
NoJWT == [user_id |-> 0, exp |-> 0, iat |-> 0, type |-> "none", key |-> ""]
MalformedJWT == [user_id |-> 0, exp |-> 0, iat |-> 0, type |-> "garbage", key |-> ""]

\* GenerateAccessToken at time t.
GenerateAccessToken(e, userID, t) ==
    [user_id |-> userID, exp |-> Unix(t + AccessTokenDuration), iat |-> Unix(t),
     type |-> "access", key |-> IssuerSecret(e)]

\* A token an attacker signs with a key of his own.
ForgedJWT(userID, t) ==
    [user_id |-> userID, exp |-> Unix(t + AccessTokenDuration), iat |-> Unix(t),
     type |-> "access", key |-> "k-attacker"]

\* jwtware with SigningKey = secret at time t: the errors it may end with,
\* {""} when the token passes.  The expiry check is golang-jwt's: the token
\* passes while now is before exp.  The text of the error for a request
\* without a token is the jwtware build's, which spells it with either case.
jwtVerify(secret, jwt, t) ==
    IF jwt = NoJWT THEN {"Missing or malformed JWT", "missing or malformed JWT"}
    ELSE IF jwt = MalformedJWT THEN {"token is malformed"}
    ELSE IF jwt.key # secret THEN {"signature is invalid"}
    ELSE IF ~(t < UnixTime(jwt.exp)) THEN {"token is expired"}
    ELSE {""}

\* Faulty variant of jwtError: every rejection is a bad request.
jwtErrorBadRequest(err) ==
    [code |-> StatusBadRequest, message |-> "Missing or malformed JWT"]

\* jwtError: the response the middleware answers a rejected request with.
jwtError(err) ==
    IF err = "Missing or malformed JWT"
    THEN [code |-> StatusBadRequest, message |-> "Missing or malformed JWT"]
    ELSE [code |-> StatusUnauthorized, message |-> "Invalid or expired JWT"]

\* Faulty variant of Protected: a middleware that also asks the session store
\* for a session of the token's user that is not revoked.
ProtectedWithSession(e, jwt, t) ==
    /\ jwtVerify(MiddlewareSecret(e), jwt, t) = {""}
    /\ \E i \in LiveSessions(sessions) :
          sessions[i].UserID = jwt.user_id /\ ~sessions[i].IsRevoked

\* Protected: whether the request goes on to the handler.
Protected(e, jwt, t) == jwtVerify(MiddlewareSecret(e), jwt, t) = {""}

\* GetUserIDFromToken
GetUserIDFromToken(jwt) == jwt.user_id

\* Faulty variant of ValidateTokenOwnership: any authenticated caller passes.
ValidateTokenOwnershipAnyone(jwt, id) == GetUserIDFromToken(jwt) \in UserIDs

\* ValidateTokenOwnership
ValidateTokenOwnership(jwt, id) == id = GetUserIDFromToken(jwt)

\* -------------------------------------------------------------- token pair
NoPair == [access_token |-> NoJWT, refresh_token |-> 0, token_type |-> "", expires_in |-> 0]

\* The values GenerateRefreshToken may return, up to renaming of tokens never
\* seen before: a value some row already holds, or the least unused one.
UsedTokens(ss) == {ss[i].RefreshToken : i \in DOMAIN ss}
RefreshTokenChoices(ss) == UsedTokens(ss) \cup {Len(ss) + 1}

\* The row GenerateTokenPair builds.
NewSession(id, userID, refreshToken, t) ==
    [ID |-> id, UserID |-> userID, RefreshToken |-> refreshToken,
     ExpiresAt |-> t + RefreshTokenDuration, LastUsedAt |-> t,
     IsRevoked |-> FALSE, Deleted |-> FALSE]

\* Faulty variant of CreateFails: a unique index that leaves soft-deleted
\* rows out.
CreateFailsAmongLive(ss, refreshToken) ==
    refreshToken \in {ss[i].RefreshToken : i \in LiveSessions(ss)}

\* db.Create(session): the unique index on refresh_token covers every row,
\* soft-deleted ones included.
CreateFails(ss, refreshToken) == refreshToken \in UsedTokens(ss)

\* GenerateTokenPair(user) at time t with refreshToken drawn by
\* GenerateRefreshToken: the error, the sessions table afterwards and the pair.
GenerateTokenPair(e, ss, userID, refreshToken, t) ==
    IF CreateFails(ss, refreshToken)
    THEN [err |-> "failed to store refresh token", sessions |-> ss, pair |-> NoPair]
    ELSE [err |-> "",
          sessions |-> Append(ss, NewSession(Len(ss) + 1, userID, refreshToken, t)),
          pair |-> [access_token |-> GenerateAccessToken(e, userID, t),
                    refresh_token |-> refreshToken,
                    token_type |-> "Bearer",
                    expires_in |-> AccessTokenDuration \div TicksPerSecond]]

\* -------------------------------------------------------------- responses
\* A response: the status code and the JSON body (status, message, errors,
\* and the data: user, pair, sessions).  With it, as history: the handler
\* (op), the refresh token the request presented (req, 0: none), the user id
\* of its access token (caller, 0: none), the number of CheckPasswordHash
\* calls the request made (pwChecks) and what the request found of the row it
\* looked up or, at the middleware, the error it was rejected for (was).  A
\* login that failed at the store has in req the refresh token it generated.
NoResp ==
    [op |-> "none", req |-> 0, caller |-> 0, pwChecks |-> 0, was |-> "",
     code |-> 0, status |-> "", message |-> "", errors |-> "nil",
     user |-> 0, pair |-> NoPair, sessions |-> <<>>]

\* The JSON body of a response.
Body(r) ==
    [status |-> r.status, message |-> r.message, errors |-> r.errors,
     user |-> r.user, pair |-> r.pair, sessions |-> r.sessions]

\* ErrorResponseJSON
ErrorResponseJSON(op, code, message, errors, pwChecks) ==
    [NoResp EXCEPT !.op = op, !.pwChecks = pwChecks, !.code = code,
                   !.status = "error", !.message = message, !.errors = errors]

\* SuccessResponse
SuccessResponse(op, message, user, pair, list, pwChecks) ==
    [NoResp EXCEPT !.op = op, !.pwChecks = pwChecks, !.code = StatusOK,
                   !.status = "success", !.message = message,
                   !.user = user, !.pair = pair, !.sessions = list]

\* ---------------------------------------------------------------- workers
\* A worker: where its request stands, the refresh token the request presented,
\* the session row and the user id it has read, and, as history, whether a
\* Logout of that row has completed since it was read (loggedOut) and, for a
\* rotation, whether a LogoutAll of its user has (loggedOutAll).
Idle ==
    [pc |-> "idle", tok |-> 0, session |-> NoSession, user |-> 0, loggedOut |-> FALSE,
     loggedOutAll |-> FALSE]

IdleProcs == {p \in Procs : procs[p].pc = "idle"}

\* Workers are interchangeable: a new request goes to the first idle one.
Worker == Min(IdleProcs)

\* ------------------------------------------------------------------ clock
\* The instants the clock is looked at: the start; a tick (less than a second)
\* later; the instant an access token issued at the start runs out; the
\* instant a session created at tick 1 runs out, which is one tick after a
\* session created at the start has; and ExtraInstants ticks more.
Instants ==
    {0, 1, AccessTokenDuration}
        \cup {RefreshTokenDuration + i : i \in 1..(1 + ExtraInstants)}

\* Requests overlap in time at the first instant; after it a request starts
\* when no other is in flight, and one request at most is in flight when the
\* clock moves on.
CanStart ==
    /\ resp = NoResp
    /\ IdleProcs # {}
    /\ now = 0 \/ IdleProcs = Procs

\* ----------------------------------------------------------------- inputs
\* What clients may send.
PresentedTokens == 1..(Len(sessions) + 1)

Bearers ==
    {NoJWT, MalformedJWT, ForgedJWT(1, now)} \cup {hist[i].jwt : i \in DOMAIN hist}

\* The handlers read the user id of a token that passed the middleware and
\* nothing else of it: one passing token for each user id stands for all.
PassingBearers ==
    LET ok == {b \in Bearers : Protected(env, b, now)}
    IN  {b \in ok : \A c \in ok : c.user_id = b.user_id => c.exp >= b.exp}

\* ---------------------------------------------------------------- history
NewHistory(jwt, t, parent) ==
    [jwt |-> jwt, issuedAt |-> t, parent |-> parent, stopped |-> FALSE, stoppedAt |-> 0]

\* A rotation of row i stopped at t between its revocation write and the new
\* row, for a cause a clean run does not meet.
Stop(h, i, t) == [h EXCEPT ![i].stopped = TRUE, ![i].stoppedAt = t]

\* The sessions minted by rotating session i.
MintedFrom(i) == {j \in DOMAIN hist : hist[j].parent = i}

\* ------------------------------------------------------------------- Init
\* main has validated the configuration, connected and is listening.
Serving == [phase |-> "serving", errors |-> <<>>]

\* Prefork: the children that serve, each with its own memory.
Children == 1..NumChildren

\* The client addresses c.IP() returns.
IPs == 1..NumIPs

\* authLimiter's storage before any request, and the empty history.
NoEntry == [currHits |-> 0, exp |-> 0]
NoLimiter == [c \in Children |-> [ip \in IPs |-> NoEntry]]
NoReached == [ip \in IPs |-> <<>>]

Init ==
    /\ env \in Envs
    /\ now = 0
    /\ users = InitUsers
    /\ sessions = <<>>
    /\ hist = <<>>
    /\ procs = [p \in Procs |-> Idle]
    /\ resp = NoResp
    /\ boot = Serving
    /\ limiter = NoLimiter
    /\ reached = NoReached
    /\ products = <<>>

Tick(t) ==
    /\ resp = NoResp
    /\ t > now
    /\ Cardinality(Procs \ IdleProcs) <= 1
    /\ now' = t
    /\ UNCHANGED <<env, boot, limiter, reached, products, users, sessions, hist, procs, resp>>

\* The response leaves the server.
Deliver ==
    /\ resp # NoResp
    /\ resp' = NoResp
    /\ UNCHANGED <<env, boot, limiter, reached, products, now, users, sessions, hist, procs>>

\* ------------------------------------------------------------------ login
\* Faulty variant of LoginCheck: no password check when no user is found.
LoginCheckEarlyReturn(us, identityRaw, pass) ==
    LET identity == NormalizeEmail(identityRaw)
        u == IF ValidateEmail(identity) THEN getUserByEmail(us, identity)
             ELSE getUserByUsername(us, NormalizeUsername(identity))
    IN  IF u = 0
        THEN [ok |-> FALSE, user |-> 0, pwChecks |-> 0]
        ELSE [ok |-> CheckPasswordHash(pass, us[u].Password), user |-> u, pwChecks |-> 1]

\* Login up to the password check: the user found (0: none), whether the
\* password matched, and the number of CheckPasswordHash calls made.
LoginCheck(us, identityRaw, pass) ==
    LET identity == NormalizeEmail(identityRaw)
        u == IF ValidateEmail(identity) THEN getUserByEmail(us, identity)
             ELSE getUserByUsername(us, NormalizeUsername(identity))
    IN  IF u = 0
        THEN [ok |-> FALSE /\ CheckPasswordHash(pass, NoHash), user |-> 0, pwChecks |-> 1]
        ELSE [ok |-> CheckPasswordHash(pass, us[u].Password), user |-> u, pwChecks |-> 1]

\* Login with a parsed body, GenerateRefreshToken drawing refreshToken: the
\* response and the sessions table afterwards.  The handler's one write is
\* its last statement.
LoginResult(e, us, ss, t, identityRaw, pass, refreshToken) ==
    LET c == LoginCheck(us, identityRaw, pass)
        g == GenerateTokenPair(e, ss, c.user, refreshToken, t)
    IN  IF ~c.ok
        THEN [resp |-> [ErrorResponseJSON("login", StatusUnauthorized, "Invalid credentials",
                                          "nil", c.pwChecks)
                           EXCEPT !.was = IF c.user = 0 THEN "absent" ELSE "mismatch"],
              sessions |-> ss]
        ELSE IF g.err # ""
        THEN [resp |-> [ErrorResponseJSON("login", StatusInternalServerError,
                                          "Failed to generate tokens", "nil", c.pwChecks)
                           EXCEPT !.req = refreshToken],
              sessions |-> ss]
        ELSE [resp |-> SuccessResponse("login", "Login successful", c.user, g.pair, <<>>,
                                       c.pwChecks),
              sessions |-> g.sessions]

\* Accounts are interchangeable: the first session ever is account 1's.
Login(identityRaw, pass) ==
    /\ CanStart
    /\ sessions = <<>> => LoginCheck(users, identityRaw, pass).user \in {0, 1}
    /\ \E refreshToken \in
            IF LoginCheck(users, identityRaw, pass).ok THEN RefreshTokenChoices(sessions)
            ELSE {0} :
          LET r == LoginResult(env, users, sessions, now, identityRaw, pass, refreshToken)
          IN  /\ Len(r.sessions) <= MaxSessions
              /\ resp' = r.resp
              /\ sessions' = r.sessions
              /\ hist' = IF Len(r.sessions) > Len(sessions)
                           THEN Append(hist, NewHistory(r.resp.pair.access_token, now, 0))
                           ELSE hist
    /\ UNCHANGED <<env, boot, limiter, reached, products, now, users, procs>>

\* A request whose body c.BodyParser rejects, at a handler that parses the
\* body before anything else.
BodyOps == {"login", "refresh"}

BadBody(op) ==
    /\ CanStart
    /\ resp' = ErrorResponseJSON(op, StatusBadRequest, "Invalid request body", "err", 0)
    /\ UNCHANGED <<env, boot, limiter, reached, products, now, users, sessions, hist, procs>>

\* ---------------------------------------------------------------- refresh
\* RefreshToken answers every error of RotateRefreshToken alike.
RefreshFailed(tok) ==
    [ErrorResponseJSON("refresh", StatusUnauthorized, "Invalid or expired refresh token",
                       "nil", 0) EXCEPT !.req = tok]

\* Faulty variants of RotateRead: one without the user lookup, one that
\* resolves the first user of the table whoever owns the session.
RotateReadAnyUser(us, ss, tok, t) ==
    LET v == ValidateRefreshToken(ss, tok, t)
    IN  IF v.err # "" THEN [err |-> v.err, session |-> NoSession, user |-> 0]
        ELSE [err |-> "", session |-> v.session, user |-> v.session.UserID]

RotateReadFirstUser(us, ss, tok, t) ==
    LET v == ValidateRefreshToken(ss, tok, t)
    IN  IF v.err # "" THEN [err |-> v.err, session |-> NoSession, user |-> 0]
        ELSE IF LiveUsers(us) = {}
             THEN [err |-> "user not found", session |-> NoSession, user |-> 0]
             ELSE [err |-> "", session |-> v.session, user |-> Min(LiveUsers(us))]

\* RotateRefreshToken up to its first write: ValidateRefreshToken, then
\* db.First(&user, session.UserID).  Both are reads, of different tables, so
\* no other request's write between them changes what the two return.
RotateRead(us, ss, tok, t) ==
    LET v == ValidateRefreshToken(ss, tok, t)
    IN  IF v.err # "" THEN [err |-> v.err, session |-> NoSession, user |-> 0]
        ELSE IF FirstUserByID(us, v.session.UserID) = 0
             THEN [err |-> "user not found", session |-> NoSession, user |-> 0]
             ELSE [err |-> "", session |-> v.session, user |-> v.session.UserID]

\* RefreshToken -> RotateRefreshToken: validation and user lookup.
RotValidate(tok) ==
    /\ CanStart
    /\ LET r == RotateRead(users, sessions, tok, now)
       IN  IF r.err # ""
           THEN /\ resp' = RefreshFailed(tok)
                /\ UNCHANGED procs
           ELSE /\ procs' = [procs EXCEPT ![Worker] =
                                [pc |-> "rot_revoke", tok |-> tok, session |-> r.session,
                                 user |-> r.user, loggedOut |-> FALSE,
                                 loggedOutAll |-> FALSE]]
                /\ UNCHANGED resp
    /\ UNCHANGED <<env, boot, limiter, reached, products, now, users, sessions, hist>>

\* RotateRefreshToken: session.Revoke(db) on the row read at validation.
RotRevoke(p) ==
    /\ resp = NoResp
    /\ procs[p].pc = "rot_revoke"
    /\ sessions' = Revoke(sessions, procs[p].session)
    /\ procs' = [procs EXCEPT ![p].pc = "rot_generate"]
    /\ UNCHANGED <<env, boot, limiter, reached, products, now, users, hist, resp>>

\* RotateRefreshToken: GenerateTokenPair, and RefreshToken's response.
RotGenerate(p, refreshToken) ==
    /\ resp = NoResp
    /\ procs[p].pc = "rot_generate"
    /\ LET g == GenerateTokenPair(env, sessions, procs[p].user, refreshToken, now)
       IN  /\ Len(g.sessions) <= MaxSessions
           /\ sessions' = g.sessions
           /\ IF g.err # ""
              THEN /\ resp' = RefreshFailed(procs[p].tok)
                   /\ UNCHANGED hist
              ELSE /\ resp' = [SuccessResponse("refresh", "Token refreshed successfully",
                                               0, g.pair, <<>>, 0)
                                   EXCEPT !.req = procs[p].tok]
                   /\ hist' = Append(hist, NewHistory(g.pair.access_token, now,
                                                       procs[p].session.ID))
    /\ procs' = [procs EXCEPT ![p] = Idle]
    /\ UNCHANGED <<env, boot, limiter, reached, products, now, users>>

\* ------------------------------------------------------- protected routes
\* The middleware turns the request away; the handler does not run.
ProtectedReject(jwt) ==
    /\ CanStart
    /\ ~Protected(env, jwt, now)
    /\ \E err \in jwtVerify(MiddlewareSecret(env), jwt, now) :
          resp' = [ErrorResponseJSON("protected", jwtError(err).code, jwtError(err).message,
                                     "nil", 0)
                      EXCEPT !.was = err]
    /\ UNCHANGED <<env, boot, limiter, reached, products, now, users, sessions, hist, procs>>

\* Logout's success response.
LoggedOut(tok, was) ==
    [SuccessResponse("logout", "Logged out successfully", 0, NoPair, <<>>, 0)
        EXCEPT !.req = tok, !.was = was]

\* Logout -> RevokeRefreshToken: find the session by its token.
LogoutFind(jwt, parseable, tok) ==
    /\ CanStart
    /\ Protected(env, jwt, now)
    /\ IF ~parseable
       THEN /\ resp' = ErrorResponseJSON("logout", StatusBadRequest, "Invalid request body",
                                         "err", 0)
            /\ UNCHANGED procs
       ELSE LET i == FirstSessionByToken(sessions, tok)
            IN  IF i = 0
                THEN /\ resp' = LoggedOut(tok, "absent")
                     /\ UNCHANGED procs
                ELSE /\ procs' = [procs EXCEPT ![Worker] =
                                    [pc |-> "logout_save", tok |-> tok,
                                     session |-> sessions[i], user |-> 0,
                                     loggedOut |-> FALSE, loggedOutAll |-> FALSE]]
                     /\ UNCHANGED resp
    /\ UNCHANGED <<env, boot, limiter, reached, products, now, users, sessions, hist>>

\* RevokeRefreshToken: session.Revoke(db), and Logout's response.
LogoutSave(p) ==
    /\ resp = NoResp
    /\ procs[p].pc = "logout_save"
    /\ sessions' = Revoke(sessions, procs[p].session)
    /\ resp' = LoggedOut(procs[p].tok,
                         IF procs[p].session.IsRevoked THEN "revoked" ELSE "live")
    /\ procs' = [q \in Procs |->
                    IF q = p THEN Idle
                    ELSE IF procs[q].session.ID = procs[p].session.ID
                         THEN [procs[q] EXCEPT !.loggedOut = TRUE]
                         ELSE procs[q]]
    /\ UNCHANGED <<env, boot, limiter, reached, products, now, users, hist>>

\* LogoutAll
LogoutAll(jwt) ==
    /\ CanStart
    /\ Protected(env, jwt, now)
    /\ sessions' = RevokeAllUserSessions(sessions, GetUserIDFromToken(jwt))
    /\ resp' = [SuccessResponse("logout-all", "Logged out from all devices successfully",
                                0, NoPair, <<>>, 0)
                    EXCEPT !.caller = GetUserIDFromToken(jwt)]
    /\ procs' = [q \in Procs |->
                    IF /\ procs[q].pc \in {"rot_revoke", "rot_generate"}
                       /\ procs[q].session.UserID = GetUserIDFromToken(jwt)
                    THEN [procs[q] EXCEPT !.loggedOutAll = TRUE]
                    ELSE procs[q]]
    /\ UNCHANGED <<env, boot, limiter, reached, products, now, users, hist>>

\* GetActiveSessions: the listing, as the primary keys of the rows in order.
GetActiveSessions(jwt) ==
    /\ CanStart
    /\ Protected(env, jwt, now)
    /\ \E q \in GetUserActiveSessions(sessions, GetUserIDFromToken(jwt), now) :
          resp' = [SuccessResponse("sessions", "Active sessions retrieved successfully",
                                   0, NoPair, q, 0)
                      EXCEPT !.caller = GetUserIDFromToken(jwt)]
    /\ UNCHANGED <<env, boot, limiter, reached, products, now, users, sessions, hist, procs>>

\* DeleteUser with a parsed body: the response and the users table afterwards
\* (a soft delete of the user row).
DeleteUserResult(us, jwt, id, pass) ==
    IF ~ValidateTokenOwnership(jwt, id)
    THEN [resp |-> ErrorResponseJSON("delete-user", StatusForbidden,
                       "You don't have permission to delete this user", "nil", 0),
          users |-> us]
    ELSE IF FirstUserByID(us, id) = 0
    THEN [resp |-> ErrorResponseJSON("delete-user", StatusNotFound, "User not found", "nil", 0),
          users |-> us]
    ELSE IF ~CheckPasswordHash(pass, us[id].Password)
    THEN [resp |-> ErrorResponseJSON("delete-user", StatusUnauthorized, "Invalid password",
                                     "nil", 1),
          users |-> us]
    ELSE [resp |-> SuccessResponse("delete-user", "User deleted successfully", 0, NoPair,
                                   <<>>, 1),
          users |-> [us EXCEPT ![id].Deleted = TRUE]]

DeleteUser(jwt, id, pass) ==
    /\ CanStart
    /\ Protected(env, jwt, now)
    /\ LET r == DeleteUserResult(users, jwt, id, pass)
       IN  /\ resp' = r.resp
           /\ users' = r.users
    /\ UNCHANGED <<env, boot, limiter, reached, products, now, sessions, hist, procs>>

\* ---------------------------------------------------------------- cleanup
\* CleanupExpiredSessions, run outside the request path.
Cleanup ==
    /\ resp = NoResp
    /\ sessions' = CleanupExpiredSessions(sessions, now)
    /\ UNCHANGED <<env, boot, limiter, reached, products, now, users, hist, procs, resp>>

\* ------------------------------------------------------------------- Next
Next ==
    \/ \E t \in Instants : Tick(t)
    \/ Deliver
    \/ \E i \in PresentedIdentities, pw \in Passwords : Login(i, pw)
    \/ \E op \in BodyOps : BadBody(op)
    \/ \E tok \in PresentedTokens : RotValidate(tok)
    \/ \E p \in Procs : RotRevoke(p)
    \/ \E p \in Procs, rt \in RefreshTokenChoices(sessions) : RotGenerate(p, rt)
    \/ \E jwt \in Bearers : ProtectedReject(jwt)
    \/ \E jwt \in PassingBearers, b \in BOOLEAN, tok \in PresentedTokens :
          LogoutFind(jwt, b, tok)
    \/ \E p \in Procs : LogoutSave(p)
    \/ \E jwt \in PassingBearers : LogoutAll(jwt)
    \/ \E jwt \in PassingBearers : GetActiveSessions(jwt)
    \/ \E jwt \in PassingBearers, id \in UserIDs, pw \in Passwords : DeleteUser(jwt, id, pw)
    \/ Cleanup

Spec == Init /\ [][Next]_vars

\* ================================================================ startup
\* main up to app.Listen: ValidateConfig on the environment, os.Exit(1) on
\* any error, then the database connection and the routes.

\* RequiredEnvVars
RequiredEnvVars ==
    <<"DB_HOST", "DB_PORT", "DB_USER", "DB_PASSWORD", "DB_NAME",
      "SECRET", "ACCESS_TOKEN_SECRET", "REFRESH_TOKEN_SECRET">>

\* The three secrets ValidateConfig hands to ValidateJWTSecret.
JWTSecretVars == <<"SECRET", "ACCESS_TOKEN_SECRET", "REFRESH_TOKEN_SECRET">>

minLength == 32

weakSecrets ==
    <<"secret", "password", "changeme", "example", "test", "default", "admin", "12345">>

\* Characters, as strings of length one.
UpperCase == "ABCDEFGHIJKLMNOPQRSTUVWXYZ"
LowerCase == "abcdefghijklmnopqrstuvwxyz"
Digits == "0123456789"

Chars(s) == {SubSeq(s, i, i) : i \in 1..Len(s)}

\* strings.ToLower, on ASCII.
ToLowerChar(c) ==
    IF c \in Chars(UpperCase)
    THEN LET i == CHOOSE k \in 1..Len(UpperCase) : SubSeq(UpperCase, k, k) = c
         IN  SubSeq(LowerCase, i, i)
    ELSE c

RECURSIVE ToLower(_)
ToLower(s) ==
    IF Len(s) = 0 THEN ""
    ELSE ToLowerChar(SubSeq(s, 1, 1)) \o ToLower(SubSeq(s, 2, Len(s)))

\* strings.Contains
Contains(s, substr) ==
    \E i \in 1..(Len(s) - Len(substr) + 1) : SubSeq(s, i, i + Len(substr) - 1) = substr

\* strconv.Atoi succeeds: an optional sign, then one or more digits (the
\* numbers here fit an int).
AtoiOK(s) ==
    LET body == IF Len(s) > 0 /\ SubSeq(s, 1, 1) \in {"+", "-"} THEN SubSeq(s, 2, Len(s))
                ELSE s
    IN  Len(body) > 0 /\ Chars(body) \subseteq Chars(Digits)

\* hasMinimumComplexity: at least two of letter, digit, other.
hasMinimumComplexity(s) ==
    LET letters == Chars(UpperCase) \cup Chars(LowerCase)
        hasLetter == Chars(s) \cap letters # {}
        hasNumber == Chars(s) \cap Chars(Digits) # {}
        hasSpecial == Chars(s) \ (letters \cup Chars(Digits)) # {}
        complexityCount == (IF hasLetter THEN 1 ELSE 0) + (IF hasNumber THEN 1 ELSE 0)
                               + (IF hasSpecial THEN 1 ELSE 0)
    IN  complexityCount >= 2

\* ValidationError; the zero value is no error.
ValidationError(field, message) == [Field |-> field, Message |-> message]
NoValidationError == ValidationError("", "")

\* ValidateJWTSecret
ValidateJWTSecret(secret, fieldName) ==
    IF Len(secret) < minLength
    THEN ValidationError(fieldName, "must be at least 32 characters long")
    ELSE IF \E w \in DOMAIN weakSecrets : Contains(ToLower(secret), weakSecrets[w])
    THEN ValidationError(fieldName, "appears to contain weak/default values")
    ELSE IF ~hasMinimumComplexity(secret)
    THEN ValidationError(fieldName, "lacks sufficient complexity")
    ELSE NoValidationError

\* The subsequence of the errors that are errors, in order.
RECURSIVE Errors(_)
Errors(q) ==
    IF q = <<>> THEN <<>>
    ELSE IF Head(q).Field = "" THEN Errors(Tail(q))
    ELSE <<Head(q)>> \o Errors(Tail(q))

\* ValidateConfig: the list of errors, empty when the configuration passes.
ValidateConfig(e) ==
    LET unset == Errors([i \in DOMAIN RequiredEnvVars |->
                            IF Config(e, RequiredEnvVars[i]) = ""
                            THEN ValidationError(RequiredEnvVars[i],
                                                 "Required environment variable is not set")
                            ELSE NoValidationError])
        port == IF AtoiOK(Config(e, "DB_PORT")) THEN NoValidationError
                ELSE ValidationError("DB_PORT", "DB_PORT must be a valid number")
        secrets == [i \in DOMAIN JWTSecretVars |->
                        ValidateJWTSecret(Config(e, JWTSecretVars[i]), JWTSecretVars[i])]
        different == IF Config(e, "ACCESS_TOKEN_SECRET") = Config(e, "REFRESH_TOKEN_SECRET")
                     THEN ValidationError("ACCESS_TOKEN_SECRET/REFRESH_TOKEN_SECRET",
                                          "Access and refresh token secrets must be different")
                     ELSE NoValidationError
    IN  IF Len(unset) > 0 THEN unset
        ELSE Errors(<<port>> \o secrets \o <<different>>)

\* Values an operator may put in the environment: unset, too short, two that
\* pass every check, one with a weak word in it, one of letters only.
SecretPool ==
    {"",
     "Xk9#mP2$vL7@nQ4",
     "Xk9#mP2$vL7@nQ4&wR8*tY3!zB6^cF1%hJ5",
     "qT5)dG8(uW2+eN6=rA9-yH3_iS7;oK4:lZ1",
     "Long-Enough-But-Has-PassWord-In-It-0123",
     "abcdefghijklmnopqrstuvwxyzabcdefgh"}

StartupEnvs ==
    [DB_HOST : {"", "db"}, DB_PORT : {"", "5432", "54x2"}, DB_USER : {"", "postgres"},
     DB_PASSWORD : {"", "pg-pass"}, DB_NAME : {"", "app"},
     SECRET : SecretPool, ACCESS_TOKEN_SECRET : SecretPool, REFRESH_TOKEN_SECRET : SecretPool]

\* The process has been started, nothing has run.
Started == [phase |-> "started", errors |-> <<>>]

InitStartup ==
    /\ env \in StartupEnvs
    /\ boot = Started
    /\ now = 0
    /\ users = InitUsers
    /\ sessions = <<>>
    /\ hist = <<>>
    /\ procs = [p \in Procs |-> Idle]
    /\ resp = NoResp
    /\ limiter = NoLimiter
    /\ reached = NoReached
    /\ products = <<>>

\* main: ValidateConfig, and os.Exit(1) when it returns errors.
MainValidate ==
    /\ boot.phase = "started"
    /\ LET validationErrors == ValidateConfig(env)
       IN  boot' = [phase |-> IF Len(validationErrors) > 0 THEN "exited" ELSE "validated",
                    errors |-> validationErrors]
    /\ UNCHANGED <<env, now, users, sessions, hist, procs, resp, limiter, reached, products>>

\* main: fiber.New, database.ConnectDB, router.SetupRoutes.
MainConnect ==
    /\ boot.phase = "validated"
    /\ boot' = [boot EXCEPT !.phase = "connected"]
    /\ UNCHANGED <<env, now, users, sessions, hist, procs, resp, limiter, reached, products>>

\* main: app.Listen.
MainListen ==
    /\ boot.phase = "connected"
    /\ boot' = [boot EXCEPT !.phase = "serving"]
    /\ UNCHANGED <<env, now, users, sessions, hist, procs, resp, limiter, reached, products>>

NextStartup ==
    \/ MainValidate
    \/ MainConnect
    \/ MainListen

SpecStartup == InitStartup /\ [][NextStartup]_vars

\* =========================================================== rate limiting
\* The /auth routes as SetupAuthRoutes mounts them.  authLimiter counts the
\* requests of each c.IP() in windows of Expiration, in the memory of the
\* process that built it; with Prefork every child builds its own.

StatusTooManyRequests == 429

\* limiter.Config{Max, Expiration}
LimiterMax == 5
LimiterExpiration == 60 * TicksPerSecond

AuthEndpoints == {"login", "refresh", "logout", "logout-all", "sessions"}

\* The routes with authLimiter in their chain, and those with Protected.
RateLimited == {"login", "refresh"}
ProtectedEndpoints == {"logout", "logout-all", "sessions"}

\* The instants requests arrive at: whole windows apart.
LimiterInstants == {0, LimiterExpiration, 2 * LimiterExpiration}

\* authLimiter on a request of a key at time t: the entry afterwards.  A
\* window that has run out starts again from this request.
LimiterHit(e, t) ==
    IF t >= e.exp THEN [currHits |-> 1, exp |-> t + LimiterExpiration]
    ELSE [e EXCEPT !.currHits = e.currHits + 1]

\* LimitReached
LimitReached(e) == e.currHits > LimiterMax

TooManyRequests(endpoint) ==
    [NoResp EXCEPT !.op = endpoint, !.code = StatusTooManyRequests, !.status = "error",
                   !.message = "Too many requests. Please try again later."]

InitLimiter ==
    /\ env \in Envs
    /\ boot = Serving
    /\ now = 0
    /\ users = InitUsers
    /\ sessions = <<>>
    /\ hist = <<>>
    /\ procs = [p \in Procs |-> Idle]
    /\ resp = NoResp
    /\ limiter = NoLimiter
    /\ reached = NoReached
    /\ products = <<>>

LimiterTick(t) ==
    /\ t > now
    /\ now' = t
    /\ resp' = NoResp
    /\ UNCHANGED <<env, boot, limiter, reached, products, users, sessions, hist, procs>>

\* A request of ip to a rate-limited route, taken by child: authLimiter, then
\* the handler.
LimitedRequest(child, ip, endpoint) ==
    /\ endpoint \in RateLimited
    /\ limiter[child][ip].currHits <= LimiterMax \/ now >= limiter[child][ip].exp
    /\ Len(reached[ip]) < MaxRequests
    /\ LET e == LimiterHit(limiter[child][ip], now)
       IN  /\ limiter' = [limiter EXCEPT ![child][ip] = e]
           /\ IF LimitReached(e)
              THEN /\ resp' = TooManyRequests(endpoint)
                   /\ UNCHANGED reached
              ELSE /\ resp' = NoResp
                   /\ reached' = [reached EXCEPT ![ip] = Append(@, now)]
    /\ UNCHANGED <<env, boot, products, now, users, sessions, hist, procs>>

\* A request of ip to a route behind Protected only: the middleware, then the
\* handler.
ProtectedRequest(child, ip, endpoint, jwt) ==
    /\ endpoint \in ProtectedEndpoints
    /\ Len(reached[ip]) < MaxRequests
    /\ IF Protected(env, jwt, now)
       THEN /\ resp' = NoResp
            /\ reached' = [reached EXCEPT ![ip] = Append(@, now)]
       ELSE /\ \E err \in jwtVerify(MiddlewareSecret(env), jwt, now) :
                  resp' = ErrorResponseJSON(endpoint, jwtError(err).code, jwtError(err).message,
                                            "nil", 0)
            /\ UNCHANGED reached
    /\ UNCHANGED <<env, boot, limiter, products, now, users, sessions, hist, procs>>

NextLimiter ==
    \/ \E t \in LimiterInstants : LimiterTick(t)
    \/ \E c \in Children, ip \in IPs, ep \in RateLimited : LimitedRequest(c, ip, ep)
    \/ \E c \in Children, ip \in IPs, ep \in ProtectedEndpoints,
          jwt \in {NoJWT, GenerateAccessToken(env, 1, now)} :
            ProtectedRequest(c, ip, ep, jwt)

SpecLimiter == InitLimiter /\ [][NextLimiter]_vars

\* ============================================================== resources
\* The owner-only routes: PATCH and DELETE /users/:id, POST /products, PATCH
\* and DELETE /products/:id, each behind Protected.  A handler is one action:
\* it decides on the row it read and writes that row by its primary key, and
\* no handler changes a product's UserID or a user's ID.

StatusCreated == 201

\* strings.TrimSpace, for the space character.
RECURSIVE TrimSpace(_)
TrimSpace(s) ==
    IF Len(s) = 0 THEN s
    ELSE IF SubSeq(s, 1, 1) = " " THEN TrimSpace(SubSeq(s, 2, Len(s)))
    ELSE IF SubSeq(s, Len(s), Len(s)) = " " THEN TrimSpace(SubSeq(s, 1, Len(s) - 1))
    ELSE s

\* SanitizeString
SanitizeString(input, maxLength) ==
    LET trimmed == TrimSpace(input)
    IN  IF Len(trimmed) > maxLength THEN SubSeq(trimmed, 1, maxLength) ELSE trimmed

\* Request bodies of UpdateUser that c.BodyParser accepts (parseable); a field
\* left out is the zero value.
UpdateUserInputs == [Names : {"", " Ann "}]

\* Request bodies of CreateProduct and UpdateProduct.
ProductInputs ==
    [Title : {"", "Pen", " Ink "}, Description : {"", "blue"}, Amount : {-1, 0, 2}]

\* Rows a query sees, and db.First(&product, id).
LiveProducts(ps) == {i \in DOMAIN ps : ~ps[i].Deleted}
FirstProductByID(ps, id) == IF id \in LiveProducts(ps) THEN id ELSE 0

\* UpdateUser: the response and the users table afterwards.
UpdateUserResult(us, jwt, id, parseable, input) ==
    IF ~ValidateTokenOwnership(jwt, id)
    THEN [resp |-> ErrorResponseJSON("update-user", StatusForbidden,
                       "You don't have permission to update this user", "nil", 0),
          users |-> us]
    ELSE IF ~parseable
    THEN [resp |-> ErrorResponseJSON("update-user", StatusBadRequest, "Invalid request body",
                                     "err", 0),
          users |-> us]
    ELSE IF Len(input.Names) > 255
    THEN [resp |-> ErrorResponseJSON("update-user", StatusBadRequest, "Validation failed",
                                     "err", 0),
          users |-> us]
    ELSE IF FirstUserByID(us, id) = 0
    THEN [resp |-> ErrorResponseJSON("update-user", StatusNotFound, "User not found", "nil", 0),
          users |-> us]
    ELSE [resp |-> SuccessResponse("update-user", "User updated successfully", id, NoPair,
                                   <<>>, 0),
          users |-> [us EXCEPT ![id].Names = SanitizeString(input.Names, 255)]]

UpdateUser(jwt, id, parseable, input) ==
    /\ CanStart
    /\ Protected(env, jwt, now)
    /\ LET r == UpdateUserResult(users, jwt, id, parseable, input)
       IN  /\ resp' = [r.resp EXCEPT !.caller = GetUserIDFromToken(jwt)]
           /\ users' = r.users
    /\ UNCHANGED <<env, boot, limiter, reached, products, now, sessions, hist, procs>>

\* CreateProduct: the response and the products table afterwards.
CreateProductResult(ps, jwt, parseable, input) ==
    IF ~parseable
    THEN [resp |-> ErrorResponseJSON("create-product", StatusBadRequest,
                                     "Invalid request body", "err", 0),
          products |-> ps]
    ELSE IF \/ Len(input.Title) < 1 \/ Len(input.Title) > 255
            \/ Len(input.Description) < 1 \/ Len(input.Description) > 2000
            \/ input.Amount = 0 \/ input.Amount < 0
    THEN [resp |-> ErrorResponseJSON("create-product", StatusBadRequest, "Validation failed",
                                     "err", 0),
          products |-> ps]
    ELSE [resp |-> [SuccessResponse("create-product", "Product created successfully", 0,
                                    NoPair, <<>>, 0) EXCEPT !.code = StatusCreated],
          products |-> Append(ps, [ID |-> Len(ps) + 1,
                                   Title |-> SanitizeString(input.Title, 255),
                                   Description |-> SanitizeString(input.Description, 2000),
                                   Amount |-> input.Amount,
                                   UserID |-> GetUserIDFromToken(jwt),
                                   Deleted |-> FALSE])]

CreateProduct(jwt, parseable, input) ==
    /\ CanStart
    /\ Protected(env, jwt, now)
    /\ LET r == CreateProductResult(products, jwt, parseable, input)
       IN  /\ Len(r.products) <= MaxProducts
           /\ resp' = [r.resp EXCEPT !.caller = GetUserIDFromToken(jwt)]
           /\ products' = r.products
    /\ UNCHANGED <<env, boot, limiter, reached, now, users, sessions, hist, procs>>

\* UpdateProduct: the response and the products table afterwards.
UpdateProductResult(ps, jwt, id, parseable, input) ==
    LET userID == GetUserIDFromToken(jwt)
    IN  IF FirstProductByID(ps, id) = 0
        THEN [resp |-> ErrorResponseJSON("update-product", StatusNotFound,
                                         "Product not found", "nil", 0),
              products |-> ps]
        ELSE IF ps[id].UserID # userID
        THEN [resp |-> ErrorResponseJSON("update-product", StatusForbidden,
                           "You don't have permission to update this product", "nil", 0),
              products |-> ps]
        ELSE IF ~parseable
        THEN [resp |-> ErrorResponseJSON("update-product", StatusBadRequest,
                                         "Invalid request body", "err", 0),
              products |-> ps]
        ELSE IF \/ input.Title # "" /\ Len(input.Title) > 255
                \/ input.Description # "" /\ Len(input.Description) > 2000
                \/ input.Amount # 0 /\ input.Amount < 0
        THEN [resp |-> ErrorResponseJSON("update-product", StatusBadRequest,
                                         "Validation failed", "err", 0),
              products |-> ps]
        ELSE [resp |-> SuccessResponse("update-product", "Product updated successfully", 0,
                                       NoPair, <<>>, 0),
              products |->
                [ps EXCEPT ![id] =
                    [@ EXCEPT !.Title = IF input.Title # ""
                                        THEN SanitizeString(input.Title, 255) ELSE @,
                              !.Description = IF input.Description # ""
                                              THEN SanitizeString(input.Description, 2000)
                                              ELSE @,
                              !.Amount = IF input.Amount >= 0 THEN input.Amount ELSE @]]]

UpdateProduct(jwt, id, parseable, input) ==
    /\ CanStart
    /\ Protected(env, jwt, now)
    /\ LET r == UpdateProductResult(products, jwt, id, parseable, input)
       IN  /\ resp' = [r.resp EXCEPT !.caller = GetUserIDFromToken(jwt)]
           /\ products' = r.products
    /\ UNCHANGED <<env, boot, limiter, reached, now, users, sessions, hist, procs>>

\* DeleteProduct: the response and the products table afterwards (a soft
\* delete of the row).
DeleteProductResult(ps, jwt, id) ==
    LET userID == GetUserIDFromToken(jwt)
    IN  IF FirstProductByID(ps, id) = 0
        THEN [resp |-> ErrorResponseJSON("delete-product", StatusNotFound,
                                         "Product not found", "nil", 0),
              products |-> ps]
        ELSE IF ps[id].UserID # userID
        THEN [resp |-> ErrorResponseJSON("delete-product", StatusForbidden,
                           "You don't have permission to delete this product", "nil", 0),
              products |-> ps]
        ELSE [resp |-> SuccessResponse("delete-product", "Product deleted successfully", 0,
                                       NoPair, <<>>, 0),
              products |-> [ps EXCEPT ![id].Deleted = TRUE]]

DeleteProduct(jwt, id) ==
    /\ CanStart
    /\ Protected(env, jwt, now)
    /\ LET r == DeleteProductResult(products, jwt, id)
       IN  /\ resp' = [r.resp EXCEPT !.caller = GetUserIDFromToken(jwt)]
           /\ products' = r.products
    /\ UNCHANGED <<env, boot, limiter, reached, now, users, sessions, hist, procs>>

\* The access tokens logins at this instant return, one for each user.
OwnerBearers == {GenerateAccessToken(env, u, now) : u \in UserIDs}

\* The :id of a product route.
ProductIDs == 1..MaxProducts

NextResources ==
    \/ Deliver
    \/ \E jwt \in OwnerBearers, id \in UserIDs, b \in BOOLEAN, in \in UpdateUserInputs :
          UpdateUser(jwt, id, b, in)
    \/ \E jwt \in OwnerBearers, id \in UserIDs, pw \in Passwords : DeleteUser(jwt, id, pw)
    \/ \E jwt \in OwnerBearers, b \in BOOLEAN, in \in ProductInputs : CreateProduct(jwt, b, in)
    \/ \E jwt \in OwnerBearers, id \in ProductIDs, b \in BOOLEAN, in \in ProductInputs :
          UpdateProduct(jwt, id, b, in)
    \/ \E jwt \in OwnerBearers, id \in ProductIDs : DeleteProduct(jwt, id)

SpecResources == Init /\ [][NextResources]_vars

\* ================================================================= faults
\* The errors RotateRefreshToken and GenerateTokenPair handle and a clean run
\* does not meet: jwt's SignedString, rand.Read and the database refusing a
\* write.  A refused write leaves the table as it was.
Faults == {"sign", "rand", "store"}

\* Faulty variant of GenerateTokenPairUnder: the row is inserted before the
\* access token is signed, and stays when signing fails.
GenerateTokenPairStoresFirst(fault, e, ss, userID, refreshToken, t) ==
    IF fault = "rand"
    THEN [err |-> "failed to generate refresh token", sessions |-> ss, pair |-> NoPair]
    ELSE IF fault = "store" \/ CreateFails(ss, refreshToken)
    THEN [err |-> "failed to store refresh token", sessions |-> ss, pair |-> NoPair]
    ELSE IF fault = "sign"
    THEN [err |-> "failed to generate access token",
          sessions |-> Append(ss, NewSession(Len(ss) + 1, userID, refreshToken, t)),
          pair |-> NoPair]
    ELSE GenerateTokenPair(e, ss, userID, refreshToken, t)

\* GenerateTokenPair when the step named by fault ("none": no step) errors:
\* the three error returns in the order the code reaches them.
GenerateTokenPairUnder(fault, e, ss, userID, refreshToken, t) ==
    IF fault = "sign"
    THEN [err |-> "failed to generate access token", sessions |-> ss, pair |-> NoPair]
    ELSE IF fault = "rand"
    THEN [err |-> "failed to generate refresh token", sessions |-> ss, pair |-> NoPair]
    ELSE IF fault = "store"
    THEN [err |-> "failed to store refresh token", sessions |-> ss, pair |-> NoPair]
    ELSE GenerateTokenPair(e, ss, userID, refreshToken, t)

\* Faulty variant of RevokeOutcome: the error of the write is dropped.
RevokeOutcomeIgnored(ss, s, fails) ==
    IF fails THEN [err |-> "", sessions |-> ss]
    ELSE [err |-> "", sessions |-> Revoke(ss, s)]

\* session.Revoke(db) as RotateRefreshToken sees it: the error, and the table
\* afterwards.
RevokeOutcome(ss, s, fails) ==
    IF fails THEN [err |-> "failed to revoke old token", sessions |-> ss]
    ELSE [err |-> "", sessions |-> Revoke(ss, s)]

\* hist follows the sessions table: an entry for a row a failed call left.
\* The refresh tokens drawn by a call that fails at fault: none (0) when it
\* returns before GenerateRefreshToken has succeeded.
DrawnTokens(ss, fault) == IF fault = "store" THEN RefreshTokenChoices(ss) ELSE {0}

FollowTable(ss, parent) ==
    IF Len(ss) > Len(hist) THEN Append(hist, NewHistory(NoJWT, now, parent)) ELSE hist

\* Login, password accepted, with GenerateTokenPair failing: 500.
LoginFails(identityRaw, pass, fault) ==
    /\ CanStart
    /\ LoginCheck(users, identityRaw, pass).ok
    /\ sessions = <<>> => LoginCheck(users, identityRaw, pass).user = 1
    /\ \E refreshToken \in DrawnTokens(sessions, fault) :
          LET c == LoginCheck(users, identityRaw, pass)
              g == GenerateTokenPairUnder(fault, env, sessions, c.user, refreshToken, now)
          IN  /\ g.err # ""
              /\ Len(g.sessions) <= MaxSessions
              /\ resp' = [ErrorResponseJSON("login", StatusInternalServerError,
                                            "Failed to generate tokens", "nil", c.pwChecks)
                             EXCEPT !.req = refreshToken]
              /\ sessions' = g.sessions
              /\ hist' = FollowTable(g.sessions, 0)
    /\ UNCHANGED <<env, boot, limiter, reached, products, now, users, procs>>

\* RotateRefreshToken: session.Revoke(db) returns an error.
RotRevokeFails(p) ==
    /\ resp = NoResp
    /\ procs[p].pc = "rot_revoke"
    /\ LET r == RevokeOutcome(sessions, procs[p].session, TRUE)
       IN  /\ sessions' = r.sessions
           /\ IF r.err # ""
              THEN /\ resp' = RefreshFailed(procs[p].tok)
                   /\ procs' = [procs EXCEPT ![p] = Idle]
              ELSE /\ procs' = [procs EXCEPT ![p].pc = "rot_generate"]
                   /\ UNCHANGED resp
    /\ UNCHANGED <<env, boot, limiter, reached, products, now, users, hist>>

\* RotateRefreshToken: GenerateTokenPair returns an error of the kind fault.
RotGenerateFails(p, refreshToken, fault) ==
    /\ resp = NoResp
    /\ procs[p].pc = "rot_generate"
    /\ LET g == GenerateTokenPairUnder(fault, env, sessions, procs[p].user, refreshToken, now)
       IN  /\ g.err # ""
           /\ Len(g.sessions) <= MaxSessions
           /\ sessions' = g.sessions
           /\ hist' = Stop(FollowTable(g.sessions, procs[p].session.ID),
                            procs[p].session.ID, now)
    /\ resp' = RefreshFailed(procs[p].tok)
    /\ procs' = [procs EXCEPT ![p] = Idle]
    /\ UNCHANGED <<env, boot, limiter, reached, products, now, users>>

\* The process serving the request dies: no further statement of the handler
\* runs and no response is written.
Crash(p) ==
    /\ resp = NoResp
    /\ procs[p].pc # "idle"
    /\ procs' = [procs EXCEPT ![p] = Idle]
    /\ hist' = IF procs[p].pc = "rot_generate" THEN Stop(hist, procs[p].session.ID, now)
                ELSE hist
    /\ UNCHANGED <<env, boot, limiter, reached, products, now, users, sessions, resp>>

\* The requests that issue and rotate tokens, the failures they handle,
\* crashes, and the writes of other code to the rows a stopped rotation left.
NextFaults ==
    \/ \E t \in Instants : Tick(t)
    \/ Deliver
    \/ \E i \in PresentedIdentities, pw \in Passwords : Login(i, pw)
    \/ \E tok \in PresentedTokens : RotValidate(tok)
    \/ \E p \in Procs : RotRevoke(p)
    \/ \E p \in Procs, rt \in RefreshTokenChoices(sessions) : RotGenerate(p, rt)
    \/ \E jwt \in PassingBearers, b \in BOOLEAN, tok \in PresentedTokens :
          LogoutFind(jwt, b, tok)
    \/ \E p \in Procs : LogoutSave(p)
    \/ Cleanup
    \/ \E i \in PresentedIdentities, pw \in Passwords, f \in Faults : LoginFails(i, pw, f)
    \/ \E p \in Procs : RotRevokeFails(p)
    \/ \E p \in Procs, f \in Faults :
          \E rt \in DrawnTokens(sessions, f) : RotGenerateFails(p, rt, f)
    \/ \E p \in Procs : Crash(p)

SpecFaults == Init /\ [][NextFaults]_vars

\* ================================================================= claims

C2_AtMostOneMint ==
    \A i \in DOMAIN hist : Cardinality(MintedFrom(i)) <= 1

\* C3 (as stated): a stored session is valid, and ValidateRefreshToken accepts
\* its token, exactly when now < expiresAt and it is not revoked; at
\* now = expiresAt it is rejected.
C3_ValidIffBeforeExpiry ==
    \A i \in LiveSessions(sessions) :
        LET accepted == now < sessions[i].ExpiresAt /\ ~sessions[i].IsRevoked
        IN  /\ IsValid(sessions[i], now) <=> accepted
            /\ ValidateRefreshToken(sessions, sessions[i].RefreshToken, now).err = ""
                  <=> accepted

\* C4: expiry dominates revocation.  For every stored session whose expiresAt
\* is strictly before now, ValidateRefreshToken rejects its token whether or
\* not isRevoked is set, and a rotation that presents it answers 401, creates
\* no session and goes no further.
C4_ExpiryDominates ==
    [][ \A i \in DOMAIN sessions :
            sessions[i].ExpiresAt < now =>
                LET tok == sessions[i].RefreshToken
                    flipped == Save(sessions, [sessions[i] EXCEPT !.IsRevoked = ~@])
                IN  /\ ValidateRefreshToken(sessions, tok, now).err # ""
                    /\ ValidateRefreshToken(flipped, tok, now).err # ""
                    /\ RotateRead(users, sessions, tok, now).err # ""
                    /\ RotValidate(tok) =>
                          /\ resp' = RefreshFailed(tok)
                          /\ UNCHANGED <<sessions, hist, procs>>
      ]_vars

\* C4, witness: a rotation that presented the token of an expired session
\* that is not revoked has been answered 401.
C4_Witness ==
    /\ resp.op = "refresh"
    /\ resp.code = StatusUnauthorized
    /\ \E i \in LiveSessions(sessions) :
          /\ sessions[i].RefreshToken = resp.req
          /\ sessions[i].ExpiresAt < now
          /\ ~sessions[i].IsRevoked

\* C5: logout-all is total for the user and touches nobody else.  When
\* RevokeAllUserSessions(u) returns, every session of u that existed before
\* the call fails validation, and the rows of other users are unchanged; a
\* token that fails validation fails it ever after.
C5_RevokeAllTotal ==
    [][ /\ \A jwt \in PassingBearers :
              LogoutAll(jwt) =>
                /\ Len(sessions') = Len(sessions)
                /\ \A i \in DOMAIN sessions :
                      IF sessions[i].UserID = GetUserIDFromToken(jwt)
                      THEN ValidateRefreshToken(sessions', sessions[i].RefreshToken,
                                                now').err # ""
                      ELSE sessions'[i] = sessions[i]
        /\ \A i \in DOMAIN sessions :
              ValidateRefreshToken(sessions, sessions[i].RefreshToken, now).err # ""
                => ValidateRefreshToken(sessions', sessions[i].RefreshToken, now').err # ""
      ]_vars

\* C5, witness: logout-all has answered a user who had a session, now
\* revoked, while a session of another user is still valid.
C5_Witness ==
    /\ resp.op = "logout-all"
    /\ resp.code = StatusOK
    /\ \E i, j \in LiveSessions(sessions) :
          /\ sessions[i].UserID = resp.caller
          /\ sessions[i].IsRevoked
          /\ sessions[j].UserID # resp.caller
          /\ IsValid(sessions[j], now)

\* C6 (as stated): logout is final for the token.  A rotation of a token
\* whose Logout has completed, a rotation that had already passed validation
\* included, returns no new pair and mints no session.
C6_LogoutFinal ==
    [][ \A p \in Procs, rt \in RefreshTokenChoices(sessions) :
            (RotGenerate(p, rt) /\ procs[p].loggedOut) =>
                /\ resp'.code # StatusOK
                /\ Len(sessions') = Len(sessions)
      ]_vars

C8_NoEnumeration ==
    [][ (resp = NoResp /\ resp'.op = "login" /\ resp'.was \in {"absent", "mismatch"}) =>
            /\ resp'.code = StatusUnauthorized
            /\ Body(resp') =
                  Body(ErrorResponseJSON("login", StatusUnauthorized,
                                         "Invalid credentials", "nil", 0))
            /\ resp'.pwChecks = 1
            /\ UNCHANGED <<sessions, hist, users>>
      ]_vars

\* C8, witness: a login for an identity no user has was answered 401 after a
\* call of the password check.
C8_Witness ==
    /\ resp.op = "login"
    /\ resp.code = StatusUnauthorized
    /\ resp.was = "absent"
    /\ resp.pwChecks = 1

\* C9 (as amended): issue/verify round trip.  A successful login returns
\* token_type "Bearer" and expires_in 900 with an access token whose exp is
\* the issue time plus 15 minutes cut down to a whole second; the Protected
\* middleware accepts that token at every time strictly before its exp and
\* rejects it from then on; issuer and middleware select the same secret
\* (ACCESS_TOKEN_SECRET if set, else SECRET).
C9_RoundTrip ==
    /\ (resp.op = "login" /\ resp.code = StatusOK) =>
          /\ resp.pair.token_type = "Bearer"
          /\ resp.pair.expires_in = 900
          /\ resp.pair.access_token = hist[Len(hist)].jwt
          /\ hist[Len(hist)].issuedAt = now
    /\ \A i \in DOMAIN hist :
          LET jwt == hist[i].jwt
              due == hist[i].issuedAt + AccessTokenDuration
          IN  /\ UnixTime(jwt.exp) <= due
              /\ UnixTime(jwt.exp) > due - TicksPerSecond
              /\ \A t \in Instants : Protected(env, jwt, t) <=> t < UnixTime(jwt.exp)
    /\ \A e \in AllEnvs :
          /\ IssuerSecret(e) = MiddlewareSecret(e)
          /\ IssuerSecret(e) = IF e.ACCESS_TOKEN_SECRET # "" THEN e.ACCESS_TOKEN_SECRET
                               ELSE e.SECRET

\* C9, witness: a protected route has answered 200 to the access token of a
\* login made between two whole seconds, and that token is rejected at an
\* instant before its issue time plus 15 minutes.
C9_Witness ==
    /\ resp.op = "sessions"
    /\ resp.code = StatusOK
    /\ \E i \in DOMAIN hist :
          /\ hist[i].jwt.user_id = resp.caller
          /\ hist[i].parent = 0
          /\ hist[i].issuedAt = now
          /\ UnixTime(Unix(now)) # now
          /\ \E t \in Instants :
                /\ t < hist[i].issuedAt + AccessTokenDuration
                /\ ~Protected(env, hist[i].jwt, t)

\* C9 (as stated): the Protected middleware accepts a returned access token at
\* every time strictly before its issue time plus 15 minutes.
C9_Original ==
    \A i \in DOMAIN hist :
        \A t \in Instants :
            t < hist[i].issuedAt + AccessTokenDuration => Protected(env, hist[i].jwt, t)

\* C10 (as stated): the listing is the valid set.  GetUserActiveSessions(u)
\* returns exactly the sessions of u whose tokens ValidateRefreshToken would
\* accept.
C10_ListingIsValidSet ==
    \A u \in UserIDs :
        ActiveSessionIDs(sessions, u, now) =
            {i \in LiveSessions(sessions) :
                /\ sessions[i].UserID = u
                /\ ValidateRefreshToken(sessions, sessions[i].RefreshToken, now).err = ""}

\* C11: CleanupExpiredSessions removes from view every session whose expiresAt
\* is before now, revoked or not, and leaves every other row as it was;
\* afterwards ValidateRefreshToken reports the token of a removed session as
\* not found, not as expired or revoked.
C11_CleanupRemovesExpired ==
    [][ Cleanup =>
          /\ Len(sessions') = Len(sessions)
          /\ \A i \in DOMAIN sessions :
                IF ~sessions[i].Deleted /\ sessions[i].ExpiresAt < now
                THEN /\ sessions'[i] = [sessions[i] EXCEPT !.Deleted = TRUE]
                     /\ i \notin LiveSessions(sessions')
                     /\ ValidateRefreshToken(sessions', sessions[i].RefreshToken, now').err
                            = "invalid refresh token"
                ELSE sessions'[i] = sessions[i]
      ]_vars

\* C11, witness: cleanup has removed an expired session that was revoked and
\* one that was not, a session that has not expired is still there, and the
\* token of a removed one is reported not found.
C11_Witness ==
    \E i, j, k \in DOMAIN sessions :
        /\ sessions[i].Deleted /\ sessions[i].IsRevoked
        /\ sessions[j].Deleted /\ ~sessions[j].IsRevoked
        /\ ~sessions[k].Deleted /\ ~IsExpired(sessions[k], now)
        /\ ValidateRefreshToken(sessions, sessions[j].RefreshToken, now).err
              = "invalid refresh token"

\* C12: cleanup is validity-neutral.  CleanupExpiredSessions never removes a
\* session that ValidateRefreshToken would accept; in every reachable state,
\* whatever cleanup runs and requests went before, each token is accepted or
\* rejected by validation and by rotation, each generated token is accepted or
\* refused by the store, and each user's listing is, as it would be with the
\* removed rows still in place; a cleanup run changes nothing of a request in
\* flight.
C12_CleanupNeutral ==
    /\ [](LET kept == [i \in DOMAIN sessions |-> [sessions[i] EXCEPT !.Deleted = FALSE]]
          IN  /\ \A tok \in PresentedTokens :
                    /\ ValidateRefreshToken(sessions, tok, now).err = ""
                          <=> ValidateRefreshToken(kept, tok, now).err = ""
                    /\ RotateRead(users, sessions, tok, now).err = ""
                          <=> RotateRead(users, kept, tok, now).err = ""
              /\ \A rt \in RefreshTokenChoices(sessions) :
                    CreateFails(sessions, rt) <=> CreateFails(kept, rt)
              /\ \A u \in UserIDs :
                    ActiveSessionIDs(sessions, u, now) = ActiveSessionIDs(kept, u, now))
    /\ [][ Cleanup =>
              /\ \A i \in LiveSessions(sessions) :
                    ValidateRefreshToken(sessions, sessions[i].RefreshToken, now).err = ""
                        => sessions'[i] = sessions[i]
              /\ \A tok \in PresentedTokens :
                    ValidateRefreshToken(sessions', tok, now').err = ""
                        <=> ValidateRefreshToken(sessions, tok, now).err = ""
              /\ UNCHANGED <<users, hist, procs, resp>>
         ]_vars
    /\ [][ \A p \in Procs :
              /\ RotRevoke(p) => procs'[p].pc = "rot_generate"
              /\ \A rt \in RefreshTokenChoices(sessions) :
                    (RotGenerate(p, rt) /\ sessions[procs[p].session.ID].Deleted) =>
                        (resp'.code = StatusOK <=> rt \notin UsedTokens(sessions))
         ]_vars

\* C12, witness: cleanup has removed the session of a rotation in flight, and
\* a session that validation accepts is still there.
C12_Witness ==
    /\ \E p \in Procs :
          /\ procs[p].pc \in {"rot_revoke", "rot_generate"}
          /\ sessions[procs[p].session.ID].Deleted
    /\ \E i \in LiveSessions(sessions) :
          ValidateRefreshToken(sessions, sessions[i].RefreshToken, now).err = ""

\* C13 (as stated): when a rotation mints a new pair, the stored lastUsedAt of
\* the session that was presented becomes the time of the rotation.
C13_LastUsedUpdated ==
    [][ \A p \in Procs, rt \in RefreshTokenChoices(sessions) :
            (RotGenerate(p, rt) /\ resp'.code = StatusOK) =>
                sessions'[procs[p].session.ID].LastUsedAt = now'
      ]_vars

\* C14 (as stated): once DeleteUser has succeeded for a user, no session of
\* that user is visible in the session store.
C14_DeleteCascades ==
    \A u \in UserIDs :
        users[u].Deleted =>
            /\ \A i \in LiveSessions(sessions) : sessions[i].UserID # u
            /\ ActiveSessionIDs(sessions, u, now) = {}

\* C15: refresh tokens are unique.  In every reachable state no two session
\* rows hold the same refreshToken; a GenerateTokenPair whose generated token
\* is that of an existing row, a revoked or cleanup-deleted one included, fails
\* at the store, returns no pair and adds no row, and the login or refresh
\* that called it answers an error without a pair.
C15_TokensUnique ==
    /\ [](/\ \A i, j \in DOMAIN sessions :
                sessions[i].RefreshToken = sessions[j].RefreshToken => i = j
          /\ \A u \in UserIDs, rt \in UsedTokens(sessions) :
                GenerateTokenPair(env, sessions, u, rt, now)
                    = [err |-> "failed to store refresh token",
                       sessions |-> sessions, pair |-> NoPair])
    /\ [][ /\ \A p \in Procs, rt \in UsedTokens(sessions) :
                RotGenerate(p, rt) =>
                    /\ sessions' = sessions
                    /\ resp'.code # StatusOK /\ resp'.pair = NoPair
           /\ (resp = NoResp /\ resp'.op = "login" /\ resp'.req # 0) =>
                    /\ resp'.req \in UsedTokens(sessions)
                    /\ sessions' = sessions
                    /\ resp'.code = StatusInternalServerError /\ resp'.pair = NoPair
         ]_vars

\* C15, witness: a login was refused at the store because the token it
\* generated is that of a row cleanup has removed, while another row, revoked
\* and still in view, holds a different token.
C15_Witness ==
    /\ resp.op = "login" /\ resp.code = StatusInternalServerError
    /\ \E i, j \in DOMAIN sessions :
          /\ sessions[i].RefreshToken = resp.req /\ sessions[i].Deleted
          /\ ~sessions[j].Deleted /\ sessions[j].IsRevoked

C17_RefreshErrorClasses ==
    [][ /\ \A p \in Procs, rt \in RefreshTokenChoices(sessions) :
              (RotGenerate(p, rt) /\ CreateFails(sessions, rt)) =>
                  resp'.code = StatusInternalServerError
        /\ \A tok \in PresentedTokens :
              (RotValidate(tok) /\ resp'.code = StatusUnauthorized) =>
                  ValidateRefreshToken(sessions, tok, now).err # ""
      ]_vars

\* C18 (as stated): main goes on to the database and to serving only with a
\* configuration in which every required variable is set, each of SECRET,
\* ACCESS_TOKEN_SECRET and REFRESH_TOKEN_SECRET has 32 characters or more, and
\* no two of the three are equal; with any other it exits with a non-empty
\* error list.
C18_RefusesToStart ==
    LET bad ==
          \/ \E i \in DOMAIN RequiredEnvVars : Config(env, RequiredEnvVars[i]) = ""
          \/ \E i \in DOMAIN JWTSecretVars : Len(Config(env, JWTSecretVars[i])) < minLength
          \/ \E i, j \in DOMAIN JWTSecretVars :
                i # j /\ Config(env, JWTSecretVars[i]) = Config(env, JWTSecretVars[j])
    IN  bad =>
          /\ boot.phase \in {"started", "exited"}
          /\ boot.phase = "exited" => boot.errors # <<>>

\* C19 (as stated): of the requests of one client IP to the authentication
\* endpoints (login, refresh, logout, logout-all, sessions), at most 5 reach a
\* handler within any one minute.
C19_AtMostFivePerMinute ==
    \A ip \in IPs :
        \A i, j \in DOMAIN reached[ip] :
            j >= i + LimiterMax => reached[ip][j] - reached[ip][i] >= LimiterExpiration

\* C20 (as amended): ownership is enforced.  A user record changes only by an
\* UpdateUser or DeleteUser whose caller's user_id is the path id, and a
\* product changes only by an UpdateProduct or DeleteProduct whose caller's
\* user_id is the product's UserID, which never changes; a new product belongs
\* to its creator.  Any other caller of a user route, and any other caller of
\* the route of a product that is in view, gets 403 and the store is
\* unchanged; for a product id with no row in view (never created, or soft
\* deleted) every caller gets 404 and the store is unchanged.
C20_OwnerOnly ==
    /\ [](/\ \A jwt \in OwnerBearers, id \in UserIDs :
                GetUserIDFromToken(jwt) # id =>
                    /\ \A b \in BOOLEAN, in \in UpdateUserInputs :
                          LET r == UpdateUserResult(users, jwt, id, b, in)
                          IN  r.resp.code = StatusForbidden /\ r.users = users
                    /\ \A pw \in Passwords :
                          LET r == DeleteUserResult(users, jwt, id, pw)
                          IN  r.resp.code = StatusForbidden /\ r.users = users
          /\ \A jwt \in OwnerBearers, id \in ProductIDs :
                LET code == IF id \notin LiveProducts(products) THEN StatusNotFound
                            ELSE IF products[id].UserID # GetUserIDFromToken(jwt)
                            THEN StatusForbidden ELSE 0
                IN  code # 0 =>
                      /\ \A b \in BOOLEAN, in \in ProductInputs :
                            LET r == UpdateProductResult(products, jwt, id, b, in)
                            IN  r.resp.code = code /\ r.products = products
                      /\ LET r == DeleteProductResult(products, jwt, id)
                         IN  r.resp.code = code /\ r.products = products)
    /\ [][ /\ \A u \in UserIDs :
                 users'[u] # users[u] =>
                     \E jwt \in OwnerBearers :
                         /\ GetUserIDFromToken(jwt) = u
                         /\ \/ \E b \in BOOLEAN, in \in UpdateUserInputs : UpdateUser(jwt, u, b, in)
                            \/ \E pw \in Passwords : DeleteUser(jwt, u, pw)
           /\ \A i \in DOMAIN products :
                 /\ i \in DOMAIN products' /\ products'[i].UserID = products[i].UserID
                 /\ products'[i] # products[i] =>
                       \E jwt \in OwnerBearers :
                           /\ GetUserIDFromToken(jwt) = products[i].UserID
                           /\ \/ \E b \in BOOLEAN, in \in ProductInputs : UpdateProduct(jwt, i, b, in)
                              \/ DeleteProduct(jwt, i)
           /\ \A i \in DOMAIN products' \ DOMAIN products : products'[i].UserID = resp'.caller
           /\ resp'.code = StatusForbidden /\ resp = NoResp => UNCHANGED <<users, products, sessions>>
         ]_vars

\* C20, witness: a caller has been refused (403) the deletion of a product in
\* view that belongs to another user, after owners changed a user record and
\* a product.
C20_Witness ==
    /\ resp.op = "delete-product" /\ resp.code = StatusForbidden
    /\ \E i \in LiveProducts(products) :
          products[i].UserID # resp.caller /\ products[i].Amount = 0
    /\ \E u \in UserIDs : users[u].Names # ""
    /\ \E u \in UserIDs : users[u].Deleted

\* C20 (as stated): a caller whose user_id is not the UserID of a product in
\* the store gets 403 from UpdateProduct and DeleteProduct, and a caller whose
\* user_id is not the path id gets 403 from UpdateUser and DeleteUser; the
\* store is unchanged.
C20_Original ==
    [][ /\ \A jwt \in OwnerBearers, id \in DOMAIN products :
              products[id].UserID # GetUserIDFromToken(jwt) =>
                  /\ \A b \in BOOLEAN, in \in ProductInputs :
                        UpdateProduct(jwt, id, b, in) =>
                            resp'.code = StatusForbidden /\ UNCHANGED <<users, products>>
                  /\ DeleteProduct(jwt, id) =>
                        resp'.code = StatusForbidden /\ UNCHANGED <<users, products>>
        /\ \A jwt \in OwnerBearers, id \in UserIDs :
              GetUserIDFromToken(jwt) # id =>
                  /\ \A b \in BOOLEAN, in \in UpdateUserInputs :
                        UpdateUser(jwt, id, b, in) =>
                            resp'.code = StatusForbidden /\ UNCHANGED <<users, products>>
                  /\ \A pw \in Passwords :
                        DeleteUser(jwt, id, pw) =>
                            resp'.code = StatusForbidden /\ UNCHANGED <<users, products>>
      ]_vars

\* C22: rotation for a deleted account.  When the presented refresh token
\* passes validation and the user row of its session is gone at the lookup,
\* the rotation fails: the refresh request is answered 401 without a pair, no
\* session row is added, and the presented session, its isRevoked included,
\* is as it was; nothing is left in flight.
C22_DeletedAccount ==
    /\ [](\A tok \in PresentedTokens :
            LET v == ValidateRefreshToken(sessions, tok, now)
            IN  (v.err = "" /\ FirstUserByID(users, v.session.UserID) = 0) =>
                    RotateRead(users, sessions, tok, now)
                        = [err |-> "user not found", session |-> NoSession, user |-> 0])
    /\ [][ (/\ resp = NoResp /\ resp'.op = "refresh" /\ procs' = procs
            /\ ValidateRefreshToken(sessions, resp'.req, now).err = ""
            /\ users[ValidateRefreshToken(sessions, resp'.req, now).session.UserID].Deleted)
           => /\ resp'.code = StatusUnauthorized /\ resp'.pair = NoPair
              /\ sessions' = sessions
              /\ ~sessions'[FirstSessionByToken(sessions, resp'.req)].IsRevoked
              /\ UNCHANGED <<users, hist>>
         ]_vars

\* C22, witness: a refresh with a valid token of a deleted user has been
\* answered 401, and the session is still not revoked.
C22_Witness ==
    /\ resp.op = "refresh" /\ resp.code = StatusUnauthorized
    /\ LET v == ValidateRefreshToken(sessions, resp.req, now)
       IN  v.err = "" /\ users[v.session.UserID].Deleted
    /\ \A p \in Procs : procs[p].pc = "idle"

\* C26: invalidity is permanent.  On every step, whatever the interleaving of
\* login, rotation, logout, logout-all, deletion and cleanup and whatever
\* stale row a Save writes back: a stored isRevoked that is true stays true,
\* no row's expiresAt, token or owner changes, and a session whose token fails
\* validation now fails it after the step.
C26_InvalidityPermanent ==
    [][ \A i \in DOMAIN sessions :
            /\ i \in DOMAIN sessions'
            /\ sessions[i].IsRevoked => sessions'[i].IsRevoked
            /\ sessions'[i].ExpiresAt = sessions[i].ExpiresAt
            /\ sessions'[i].RefreshToken = sessions[i].RefreshToken
            /\ sessions'[i].UserID = sessions[i].UserID
            /\ ValidateRefreshToken(sessions, sessions[i].RefreshToken, now).err # ""
                  => ValidateRefreshToken(sessions', sessions[i].RefreshToken, now').err # ""
      ]_vars

\* C26, witness: a Save has written back a row read before cleanup removed
\* it: the row is in view again, revoked and expired, next to a row that was
\* revoked before it expired.
C26_Witness ==
    \E i, j \in LiveSessions(sessions) :
        /\ i # j
        /\ sessions[i].IsRevoked /\ IsExpired(sessions[i], now)
        /\ \E k \in DOMAIN sessions : sessions[k].Deleted /\ sessions[k].ExpiresAt >= sessions[i].ExpiresAt
        /\ sessions[j].IsRevoked /\ ~IsExpired(sessions[j], now)

\* C29: access tokens are independent of session state.  The middleware
\* accepts an access token the service issued exactly when its signature
\* verifies with the middleware's key and now is before its exp, whatever has
\* become of the session it came with and of its user; no step other than
\* the passing of time changes whether an issued token is accepted, and a
\* request with a rejected token is turned away while one with an accepted
\* token is not.
C29_TokenIndependent ==
    /\ [](\A i \in DOMAIN hist :
            LET jwt == hist[i].jwt
            IN  /\ Protected(env, jwt, now)
                    <=> (jwt.key = MiddlewareSecret(env) /\ now < UnixTime(jwt.exp))
                /\ jwt.key = MiddlewareSecret(env)
                /\ (resp.op = "protected" /\ resp.was = "token is expired")
                      => \E j \in DOMAIN hist : ~(now < UnixTime(hist[j].jwt.exp)))
    /\ [][ now' = now =>
              \A i \in DOMAIN hist :
                  Protected(env', hist[i].jwt, now') <=> Protected(env, hist[i].jwt, now)
         ]_vars

\* C29, witness: the session list has been served to the access token of a
\* user whose account is deleted and whose sessions are all revoked.
C29_Witness ==
    /\ resp.op = "sessions" /\ resp.code = StatusOK
    /\ users[resp.caller].Deleted
    /\ \E i \in DOMAIN sessions : sessions[i].UserID = resp.caller
    /\ \A i \in DOMAIN sessions : sessions[i].UserID = resp.caller => sessions[i].IsRevoked

\* C30: rotation preserves ownership.  On every successful rotation the new
\* session has the userID of the session of the presented token and the
\* access token of the returned pair carries that user id; in every reachable
\* state each session, and the access token issued with it, belongs to the
\* user of the session it was rotated from, so along any chain of rotations
\* to the user whose login started it.
C30_OwnershipPreserved ==
    /\ [](\A j \in DOMAIN hist :
            /\ hist[j].jwt.user_id = sessions[j].UserID
            /\ hist[j].parent # 0 =>
                  /\ hist[j].parent < j
                  /\ sessions[j].UserID = sessions[hist[j].parent].UserID)
    /\ [][ (resp = NoResp /\ resp'.op = "login" /\ resp'.code = StatusOK) =>
              /\ sessions'[Len(sessions')].UserID = resp'.user
              /\ resp'.pair.access_token.user_id = resp'.user
              /\ resp'.pair.refresh_token = sessions'[Len(sessions')].RefreshToken
         ]_vars
    /\ [][ (resp = NoResp /\ resp'.op = "refresh" /\ resp'.code = StatusOK) =>
              LET old == CHOOSE i \in DOMAIN sessions : sessions[i].RefreshToken = resp'.req
                  new == sessions'[Len(sessions')]
              IN  /\ Len(sessions') = Len(sessions) + 1
                  /\ new.UserID = sessions[old].UserID
                  /\ resp'.pair.access_token.user_id = sessions[old].UserID
                  /\ resp'.pair.refresh_token = new.RefreshToken
                  /\ hist'[Len(sessions')].parent = old
         ]_vars

\* C30, witness: a refresh has returned the pair of a session rotated from a
\* session that was itself rotated from a login.
C30_Witness ==
    /\ resp.op = "refresh" /\ resp.code = StatusOK
    /\ \E j \in DOMAIN hist :
          /\ hist[j].parent # 0 /\ hist[hist[j].parent].parent # 0
          /\ resp.pair.refresh_token = sessions[j].RefreshToken
          /\ resp.pair.access_token.user_id = sessions[1].UserID

\* C25 (as stated): session rows are added only by a successful login or a
\* successful rotation, one row each, and leave the view only by
\* CleanupExpiredSessions; the revoke step of Logout and of a rotation and
\* RevokeAllUserSessions change nothing but isRevoked of the sessions they
\* target; validation and listing change nothing.
C25_SessionFrame ==
    [][ /\ Len(sessions') >= Len(sessions)
        /\ Len(sessions') > Len(sessions) =>
              /\ Len(sessions') = Len(sessions) + 1
              /\ resp'.op \in {"login", "refresh"} /\ resp'.code = StatusOK
        /\ \A i \in DOMAIN sessions :
              /\ (sessions'[i].Deleted /\ ~sessions[i].Deleted) => Cleanup
              /\ \A p \in Procs :
                    (RotRevoke(p) \/ LogoutSave(p)) =>
                        sessions'[i] = IF i = procs[p].session.ID
                                       THEN [sessions[i] EXCEPT !.IsRevoked = TRUE]
                                       ELSE sessions[i]
              /\ (resp = NoResp /\ resp'.op = "logout-all") =>
                    sessions'[i] = IF sessions[i].UserID = resp'.caller /\ ~sessions[i].Deleted
                                   THEN [sessions[i] EXCEPT !.IsRevoked = TRUE]
                                   ELSE sessions[i]
        /\ (resp = NoResp /\ resp'.op = "sessions") => sessions' = sessions
        /\ (resp = NoResp /\ resp'.op = "refresh" /\ procs' = procs) => sessions' = sessions
        /\ (\E p \in Procs : procs[p].pc = "idle" /\ procs'[p].pc = "rot_revoke")
              => sessions' = sessions
      ]_vars

\* C27 (as stated): a Logout request writes only to a session of the user of
\* its access token: when the refresh token it presents is that of another
\* user's session, the request does not go on to revoke that session.
C27_LogoutOwnSessions ==
    [][ \A jwt \in PassingBearers, tok \in PresentedTokens :
            LogoutFind(jwt, TRUE, tok) =>
                \A p \in Procs :
                    (procs[p].pc = "idle" /\ procs'[p].pc = "logout_save") =>
                        procs'[p].session.UserID = GetUserIDFromToken(jwt)
      ]_vars

\* C28 (as stated): logout-all is final under concurrency.  A rotation that
\* was in flight when a RevokeAllUserSessions of its user completed mints no
\* new session, so that once the requests then in flight have finished the
\* user has no valid session until a new login.
C28_LogoutAllFinal ==
    [][ \A p \in Procs, rt \in RefreshTokenChoices(sessions) :
            (RotGenerate(p, rt) /\ procs[p].loggedOutAll) =>
                /\ resp'.code # StatusOK
                /\ \A i \in LiveSessions(sessions') :
                      sessions'[i].UserID = procs[p].user =>
                          ~IsValid(sessions'[i], now') \/ hist'[i].parent = 0
      ]_vars



\* C21: revoke before reissue.  A rotation creates its new row only from the
\* step after its revocation write, and at that step the stored old row has
\* is_revoked = true; when the revocation write fails the request ends there
\* with an error answer (401 at the handler), no token pair, and the sessions
\* table as it was.
C21_RevokeBeforeReissue ==
    [][ /\ \A p \in Procs :
              /\ (procs[p].pc = "rot_revoke" /\ procs'[p].pc = "rot_generate")
                    => sessions'[procs[p].session.ID].IsRevoked
              /\ (procs[p].pc = "rot_revoke" /\ procs'[p].pc = "idle")
                    => /\ sessions' = sessions
                       /\ resp' # NoResp =>
                             /\ resp'.code = StatusUnauthorized
                             /\ resp'.status = "error"
                             /\ resp'.pair = NoPair
              /\ (procs[p].pc = "rot_generate" /\ procs'[p].pc = "idle")
                    => sessions[procs[p].session.ID].IsRevoked
              /\ procs'[p].pc = "rot_generate"
                    => procs[p].pc \in {"rot_revoke", "rot_generate"}
        /\ (Len(sessions') > Len(sessions) /\ hist'[Len(sessions')].parent # 0)
              => \E p \in Procs :
                    /\ procs[p].pc = "rot_generate"
                    /\ procs'[p].pc = "idle"
                    /\ hist'[Len(sessions')].parent = procs[p].session.ID
      ]_vars

\* A refresh was refused although its token still rotates (the revocation
\* write failed), and some rotation has gone through.
C21_Witness ==
    /\ resp.op = "refresh"
    /\ resp.code = StatusUnauthorized
    /\ RotateRead(users, sessions, resp.req, now).err = ""
    /\ \E j \in DOMAIN hist :
          hist[j].parent # 0 /\ sessions[hist[j].parent].IsRevoked

\* C23: all-or-nothing issuing.  GenerateTokenPair returns a pair if and only
\* if it leaves the sessions table with exactly one more row, whose
\* refresh_token is the returned one, user_id the given user, is_revoked
\* false, last_used_at now and expires_at now + 7 days; when signing, random
\* generation or the store write fails it returns an error, no tokens, and
\* the table as it was.  The same holds of every login and refresh answer.
C23_AllOrNothing ==
    /\ [](\A f \in Faults \cup {"none"}, u \in UserIDs, rt \in RefreshTokenChoices(sessions) :
            LET g == GenerateTokenPairUnder(f, env, sessions, u, rt, now)
                issued ==
                    g.sessions =
                        Append(sessions,
                               [ID |-> Len(sessions) + 1, UserID |-> u,
                                RefreshToken |-> g.pair.refresh_token,
                                ExpiresAt |-> now + 7 * 24 * 3600 * TicksPerSecond,
                                LastUsedAt |-> now, IsRevoked |-> FALSE, Deleted |-> FALSE])
            IN  /\ g.pair # NoPair <=> issued
                /\ g.pair # NoPair <=> g.err = ""
                /\ g.pair = NoPair => g.sessions = sessions
                /\ g.pair # NoPair => g.pair.access_token.user_id = u
                /\ f # "none" => g.err # "")
    /\ [][ (resp = NoResp /\ resp' # NoResp /\ resp'.op \in {"login", "refresh"}) =>
              /\ resp'.pair # NoPair <=>
                    sessions' =
                        Append(sessions,
                               [ID |-> Len(sessions) + 1,
                                UserID |-> resp'.pair.access_token.user_id,
                                RefreshToken |-> resp'.pair.refresh_token,
                                ExpiresAt |-> now + 7 * 24 * 3600 * TicksPerSecond,
                                LastUsedAt |-> now, IsRevoked |-> FALSE, Deleted |-> FALSE])
              /\ resp'.pair # NoPair <=> resp'.code = StatusOK
              /\ resp'.pair = NoPair => sessions' = sessions
         ]_vars

\* With sessions issued before, a login whose password was accepted is
\* answered 500 although the refresh token it drew was new: signing, random
\* generation or the store write failed.
C23_Witness ==
    /\ resp.op = "login"
    /\ resp.code = StatusInternalServerError
    /\ resp.pair = NoPair
    /\ resp.req \notin UsedTokens(sessions)
    /\ \E i \in DOMAIN sessions : IsValid(sessions[i], now) /\ hist[i].parent # 0

\* C24: rotation is not atomic.  When a rotation stops after its revocation
\* write and before its new row (the process dies, or GenerateTokenPair
\* fails), the old row is left revoked and the stopping step adds no row and
\* returns no pair; from then on the old refresh token fails validation, so
\* that every refresh request that arrives with it is answered 401
\* Unauthorized and starts no rotation, and no step makes the old row valid
\* again.
C24_StoppedRotation ==
    /\ [](\A i \in DOMAIN hist :
            hist[i].stopped =>
                /\ sessions[i].IsRevoked
                /\ ~IsValid(sessions[i], now)
                /\ RotateRead(users, sessions, sessions[i].RefreshToken, now).err # "")
    /\ [][ /\ \A p \in Procs :
                 /\ (/\ procs[p].pc = "rot_generate"
                     /\ procs'[p].pc = "idle"
                     /\ Len(sessions') = Len(sessions))
                       => /\ sessions' = sessions
                          /\ sessions[procs[p].session.ID].IsRevoked
                          /\ ~IsValid(sessions'[procs[p].session.ID], now')
                          /\ RotateRead(users', sessions', procs[p].tok, now').err # ""
                          /\ resp' # NoResp =>
                                resp'.code = StatusUnauthorized /\ resp'.pair = NoPair
                 /\ (procs[p].pc = "idle" /\ procs'[p].pc = "rot_revoke")
                       => ~hist[procs'[p].session.ID].stopped
           /\ \A i \in DOMAIN hist :
                 /\ hist[i].stopped => hist'[i].stopped
                 /\ (/\ hist[i].stopped
                     /\ resp = NoResp
                     /\ resp'.op = "refresh"
                     /\ resp'.req = sessions[i].RefreshToken
                     /\ procs' = procs)
                       => resp'.code = StatusUnauthorized /\ resp'.pair = NoPair
         ]_vars

\* A rotation stopped between the revocation write and the new row and the
\* row has no successor; at a later instant, with nothing in flight, a retry
\* with the old token has been answered 401.
C24_Witness ==
    \E i \in DOMAIN hist :
        /\ hist[i].stopped
        /\ MintedFrom(i) = {}
        /\ \A p \in Procs : procs[p].pc = "idle"
        /\ resp.op = "refresh"
        /\ resp.req = sessions[i].RefreshToken
        /\ resp.code = StatusUnauthorized
        /\ hist[i].stoppedAt < now
====
